---- MODULE Spec2Model ----
(***************************************************************************)
(* Identity, session and invitation core of cayopay-server.                *)
(*                                                                         *)
(* Two builds of the server share one database schema:                     *)
(*   "layered" : api -> application -> infra -> domain crates              *)
(*   "slice"   : the root crate's vertical-slice handlers (features/*.rs)  *)
(* A behaviour runs one of them (variant is fixed by Init).  Requests run  *)
(* in request slots and are cut at their .await points, so that the reads  *)
(* and writes of concurrent requests interleave as they do on the pool.    *)
(* Time is counted in days.                                                *)
(***************************************************************************)
EXTENDS Integers, FiniteSets, Sequences, TLC

\* ------------------------------------------------------------- bounds
MaxTime == 9          \* last day the clock reaches
MaxPerms == 2         \* longest permission list handed to require_any / require_all
MoneyBits == 4        \* width of the integer inside Money, standing for the 64 of i64
MaxLedger == 2        \* most transactions saved before a balance is computed

\* The requests clients send in one behaviour: how many of each operation, the
\* sets their arguments are drawn from, and the day until which they are sent.
\* Init picks one of these workloads and every started request is taken from it.
NoWork == [register |-> 0, login |-> 0, me |-> 0, invite |-> 0, accept |-> 0,
           end |-> 0,
           logins |-> {}, pws |-> {}, targets |-> {}, roles |-> {}, ledger |-> {},
           corrupt |-> FALSE, until |-> MaxTime]
Workloads ==
  { [NoWork EXCEPT !.register = 3, !.targets = {"owner@x", "new@x"},
                   !.roles = {"Admin"}],
    [NoWork EXCEPT !.login = 2, !.me = 2, !.logins = {"owner@x", "new@x"},
                   !.pws = {"secret-pw", "wrong-pw"}],
    [NoWork EXCEPT !.login = 1, !.invite = 1, !.accept = 2,
                   !.logins = {"owner@x"}, !.pws = {"secret-pw"},
                   !.targets = {"owner@x", "new@x"},
                   !.roles = {"Undefined", "Owner", "Admin"},
                   !.ledger = {[id |-> 1, source |-> 0, destination |-> 0,
                                amount_cents |-> 5]}],
    [NoWork EXCEPT !.login = 1, !.invite = 2, !.accept = 1,
                   !.logins = {"owner@x"}, !.pws = {"secret-pw"},
                   !.targets = {"new@x"}, !.roles = {"Admin"}],
    [NoWork EXCEPT !.login = 2, !.invite = 2,
                   !.logins = {"owner@x"}, !.pws = {"secret-pw"},
                   !.targets = {"new@x"}, !.roles = {"Admin"}],
    [NoWork EXCEPT !.register = 1, !.login = 1, !.invite = 1,
                   !.logins = {"new@x"}, !.pws = {"secret-pw"},
                   !.targets = {"new@x"}, !.roles = {"Owner", "Admin"}],
    [NoWork EXCEPT !.register = 1, !.login = 2,
                   !.logins = {"owner@x", "new@x"},
                   !.pws = {"secret-pw", "wrong-pw"},
                   !.targets = {"new@x"}, !.roles = {"Admin"},
                   !.corrupt = TRUE, !.until = 0],
    [NoWork EXCEPT !.login = 2, !.end = 2, !.me = 1,
                   !.logins = {"owner@x"}, !.pws = {"secret-pw"}, !.until = 0] }

Procs == {"p1", "p2"}               \* request slots (concurrent handlers)
OwnerEmail == "owner@x"             \* config.owner_email
GoodPw == "secret-pw"
SeedId == 0                         \* id of the rows seed_owner inserts

\* ------------------------------------------------------------- program constants
InviteExpiresIn == 7      \* Duration::days(7)
SliceSessionDays == 7     \* chrono::Duration::days(7) in features/login.rs

\* ------------------------------------------------------------- configuration
SessionExpirationDays == 8   \* config.session_expiration_days

VARIABLES
  variant,    \* which build serves the requests
  now,        \* Utc::now(), in days
  actors,     \* table actors   (committed rows)
  users,      \* table users
  wallets,    \* table wallets
  invites,    \* table invites
  sessions,   \* table sessions
  transactions, \* table transactions (no handler of these builds writes it)
  mails,      \* invitations handed to the notification gateway
  pc,         \* per slot: the await point the request is at
  req,        \* per slot: the request (operation and arguments)
  loc,        \* per slot: the handler's local variables
  tx,         \* per slot: rows written in the open transaction
  res,        \* per slot: the result of the last finished request
  started,    \* number of requests started so far
  budget,     \* requests the workload still holds, per operation
  hist,       \* history: what has been issued, accepted, created
  calc        \* a call of a function of the domain types: arguments and result

vars == <<variant, now, actors, users, wallets, invites, sessions, transactions,
          mails, pc, req, loc, tx, res, started, budget, hist, calc>>

db == <<actors, users, wallets, invites, sessions, transactions>>

\* ------------------------------------------------------------- RoleModel
Roles == {"Undefined", "Owner", "Admin"}
Permissions == {"ConfigureSettings", "SendInvite", "ViewAllActors"}

permissions(role) ==
  CASE role = "Owner" -> {"ConfigureSettings", "SendInvite", "ViewAllActors"}
    [] role = "Admin" -> {"SendInvite", "ViewAllActors"}
    [] OTHER -> {}

has_permission(role, perm) == perm \in permissions(role)

\* a relation in which the Owner may assign every role
can_assign_role_open(role, target_role) ==
  CASE role = "Owner" -> TRUE
    [] role = "Admin" -> target_role \in {"Admin"}
    [] OTHER -> FALSE

\* a relation in which only the Owner may assign
can_assign_role_owner(role, target_role) ==
  CASE role = "Owner" -> target_role \in {"Owner", "Admin"}
    [] OTHER -> FALSE

\* a relation in which the Admin may assign the Owner role
can_assign_role_up(role, target_role) ==
  CASE role = "Owner" -> target_role \in {"Owner", "Admin"}
    [] role = "Admin" -> target_role \in {"Owner", "Admin"}
    [] OTHER -> FALSE

\* a relation in which the Admin may assign Undefined and the Owner may not
can_assign_role_down(role, target_role) ==
  CASE role = "Owner" -> target_role \in {"Owner", "Admin"}
    [] role = "Admin" -> target_role \in {"Admin", "Undefined"}
    [] OTHER -> FALSE

can_assign_role(role, target_role) ==
  CASE role = "Owner" -> target_role \in {"Owner", "Admin"}
    [] role = "Admin" -> target_role \in {"Admin"}
    [] OTHER -> FALSE

\* Display for Role / From<String> for Role: the text column and back
role_to_string(role) ==
  CASE role = "Owner" -> "owner"
    [] role = "Admin" -> "admin"
    [] OTHER -> "undefined"

role_from_string(s) ==
  CASE s = "owner" -> "Owner"
    [] s = "admin" -> "Admin"
    [] OTHER -> "Undefined"

\* ------------------------------------------------------------- CredentialHasher
\* RawPassword::hash: an argon2 PHC string carrying the salt and the digest of
\* the secret; the digest is modelled by the secret it was computed from.
hash(password, salt) == <<"$argon2id$", salt, password>>

\* a verify that reports a mismatch as an error
verify_strict(hashed, password) ==
  IF hashed[1] # "$argon2id$" THEN "Err"
  ELSE IF hashed[3] = password THEN "true" ELSE "Err"

\* HashedPassword::verify: Ok(true) / Ok(false); a string that is no PHC string
\* is an error
verify(hashed, password) ==
  IF hashed[1] # "$argon2id$" THEN "Err"
  ELSE IF hashed[3] = password THEN "true" ELSE "false"

\* ------------------------------------------------------------- rows
NoLoc == [sess |-> {}, user |-> {}, inv |-> {}, at |-> 0, inv_at |-> 0]
NoTx == [actors |-> {}, users |-> {}, wallets |-> {}]
NoReq == [op |-> "none", id |-> 0, email |-> "", pw |-> "", role |-> "Undefined",
          token |-> 0, late |-> FALSE]

\* the persistence layer's uniqueness constraints (migrations)
UsersEmailFree(email) == \A u \in users : u.email # email
InvitesEmailFree(email) == \A i \in invites : i.email # email

\* an insert of a key another open transaction has inserted waits for it
UsersEmailPending(p, email) ==
  \E q \in Procs \ {p} : \E u \in tx[q].users : u.email = email

\* an expiry check that already fails at the instant of expiry
is_expired_inclusive(row, t) == t >= row.expires_at

\* Session::is_expired, Invite::is_expired (created_at + expires_in is the
\* row's expires_at); the slice handlers compare expires_at < now
is_expired(row, t) == t > row.expires_at

\* TransactionStore::calculate_wallet_balance: SUM over the rows the wallet is
\* an endpoint of, +amount when it is the destination, else -amount
RECURSIVE SumCents(_, _)
SumCents(rows, wallet_id) ==
  IF rows = {} THEN 0
  ELSE LET r == CHOOSE x \in rows : TRUE IN
       (CASE r.destination = wallet_id -> r.amount_cents
          [] r.source = wallet_id -> 0 - r.amount_cents
          [] OTHER -> 0) + SumCents(rows \ {r}, wallet_id)

calculate_wallet_balance(wallet_id) ==
  SumCents({r \in transactions : r.source = wallet_id \/ r.destination = wallet_id},
           wallet_id)

Idle(p) == pc[p] \in {"idle", "done"}

\* a request takes the lowest free slot (slots are interchangeable)
FreeSlot(p) == Idle(p) /\ (p = "p2" => ~Idle("p1"))

\* the request returns: locals and an open transaction are dropped (a dropped
\* sqlx transaction rolls back); `at` keeps the instant of the expiry check
FinishAt(p, result, t) ==
  /\ pc' = [pc EXCEPT ![p] = "done"]
  /\ res' = [res EXCEPT ![p] = result]
  /\ loc' = [loc EXCEPT ![p] = [NoLoc EXCEPT !.at = t]]
  /\ tx' = [tx EXCEPT ![p] = NoTx]

Finish(p, result) == FinishAt(p, result, loc[p].at)

\* the request returns AlreadySent: `inv` keeps the invitation it found and
\* `inv_at` the instant it was found at
FinishInv(p, result, i) ==
  /\ pc' = [pc EXCEPT ![p] = "done"]
  /\ res' = [res EXCEPT ![p] = result]
  /\ loc' = [loc EXCEPT ![p] = [NoLoc EXCEPT !.at = loc[p].at, !.inv = {i},
                                             !.inv_at = now]]
  /\ tx' = [tx EXCEPT ![p] = NoTx]

Goto(p, label) == pc' = [pc EXCEPT ![p] = label]

\* ------------------------------------------------------------- Init
SeedUser == [id |-> SeedId, actor_id |-> SeedId, email |-> OwnerEmail,
             password |-> hash(GoodPw, SeedId), role |-> role_to_string("Owner")]

\* a password_hash column that PasswordHash::new cannot parse
Malformed == <<"plain", SeedId, GoodPw>>

\* no call of a domain function is made while requests are served
NoCalc == [op |-> "none", args |-> <<>>, out |-> "none"]

\* the database after seed_owner, no request in progress
Seeded ==
  /\ now = 0
  /\ actors = {SeedId}
  /\ users = {IF budget.corrupt THEN [SeedUser EXCEPT !.password = Malformed]
              ELSE SeedUser}
  /\ wallets = {[id |-> SeedId, owner |-> SeedId, allow_overdraft |-> FALSE]}
  /\ invites = {}
  /\ sessions = {}
  /\ transactions = budget.ledger
  /\ mails = {}
  /\ pc = [p \in Procs |-> "idle"]
  /\ req = [p \in Procs |-> NoReq]
  /\ loc = [p \in Procs |-> NoLoc]
  /\ tx = [p \in Procs |-> NoTx]
  /\ res = [p \in Procs |-> "none"]
  /\ started = 0
  /\ hist = [cookies |-> {}, accepted |-> {}, invited |-> {}, faults |-> {},
             registered |-> {}, revoked |-> {}]

Init ==
  /\ variant \in {"layered", "slice"}
  /\ budget \in Workloads
  /\ calc = NoCalc
  /\ Seeded

\* ------------------------------------------------------------- clock
\* The clock is read on day 0 and on the days from the first expiry on.
Instants == {0} \cup InviteExpiresIn..MaxTime

Tick ==
  /\ \E t \in Instants : t > now /\ t <= budget.until /\ now' = t
  /\ UNCHANGED <<calc, variant, db, mails, pc, req, loc, tx, res, started, budget, hist>>

\* ------------------------------------------------------------- requests
Begin(p, r, label) ==
  /\ FreeSlot(p)
  /\ budget[r.op] > 0
  /\ budget' = [budget EXCEPT ![r.op] = @ - 1]
  /\ started' = started + 1
  /\ req' = [req EXCEPT ![p] = [r EXCEPT !.id = started + 1]]
  /\ pc' = [pc EXCEPT ![p] = label]
  /\ loc' = [loc EXCEPT ![p] = NoLoc]
  /\ tx' = [tx EXCEPT ![p] = NoTx]
  /\ res' = [res EXCEPT ![p] = "none"]
  /\ UNCHANGED <<calc, variant, now, db, mails, hist>>

\* AuthService::register called directly (seeding, tests)
StartRegister(p) ==
  /\ variant = "layered"
  /\ \E e \in budget.targets, role \in budget.roles,
        pw \in (IF budget.pws = {} THEN {GoodPw} ELSE budget.pws) :
       Begin(p, [NoReq EXCEPT !.op = "register", !.email = e, !.pw = pw,
                               !.role = role, !.late = ~UsersEmailFree(e)],
             "reg_find")

\* a register without the find_by_email pre-check
RegisterNoFind(p) ==
  /\ pc[p] = "reg_find"
  /\ Goto(p, "reg_actor")
  /\ UNCHANGED <<calc, variant, now, db, mails, req, loc, tx, res, started, budget, hist>>

\* register: the find_by_email pre-check
RegisterFind(p) ==
  /\ pc[p] = "reg_find"
  /\ IF ~UsersEmailFree(req[p].email)
     THEN Finish(p, "UserAlreadyExists")
     ELSE Goto(p, "reg_actor") /\ UNCHANGED <<res, loc, tx>>
  /\ UNCHANGED <<calc, variant, now, db, mails, req, started, budget, hist>>

\* pool.begin() and ActorStore::create inside the transaction
TxActor(p) ==
  /\ pc[p] = "reg_actor"
  /\ tx' = [tx EXCEPT ![p].actors = {req[p].id}]
  /\ Goto(p, "reg_user")
  /\ UNCHANGED <<calc, variant, now, db, mails, req, loc, res, started, budget, hist>>

\* UserStore::create handed the pool instead of the transaction: the row is
\* committed at once
TxUserOnPool(p) ==
  /\ pc[p] = "reg_user"
  /\ ~UsersEmailPending(p, req[p].email)
  /\ \/ /\ UsersEmailFree(req[p].email)
        /\ users' = users \cup
                    {[id |-> req[p].id, actor_id |-> req[p].id,
                      email |-> req[p].email,
                      password |-> hash(req[p].pw, req[p].id),
                      role |-> role_to_string(req[p].role)]}
        /\ Goto(p, "reg_wallet")
        /\ UNCHANGED <<res, loc, tx>>
     \/ /\ ~UsersEmailFree(req[p].email)
        /\ Finish(p, "Database")
        /\ UNCHANGED users
  /\ UNCHANGED <<calc, variant, now, actors, wallets, invites, sessions, transactions,
                 mails, req, started, budget, hist>>

\* a user insert into a table without the unique index on the address
TxUserNoIndex(p) ==
  /\ pc[p] = "reg_user"
  /\ tx' = [tx EXCEPT ![p].users =
              {[id |-> req[p].id, actor_id |-> req[p].id,
                email |-> req[p].email,
                password |-> hash(req[p].pw, req[p].id),
                role |-> role_to_string(req[p].role)]}]
  /\ Goto(p, "reg_wallet")
  /\ UNCHANGED <<res, loc>>
  /\ UNCHANGED <<calc, variant, now, db, mails, req, started, budget, hist>>

\* UserStore::create inside the transaction; the error is sqlx::Error, which
\* `?` turns into AppError::Database (Error::Database in the slice)
TxUser(p) ==
  /\ pc[p] = "reg_user"
  /\ ~UsersEmailPending(p, req[p].email)
  /\ \/ /\ UsersEmailFree(req[p].email)
        /\ tx' = [tx EXCEPT ![p].users =
                    {[id |-> req[p].id, actor_id |-> req[p].id,
                      email |-> req[p].email,
                      password |-> hash(req[p].pw, req[p].id),
                      role |-> role_to_string(req[p].role)]}]
        /\ Goto(p, "reg_wallet")
        /\ UNCHANGED <<res, loc>>
     \/ /\ ~UsersEmailFree(req[p].email)
        /\ Finish(p, "Database")
  /\ UNCHANGED <<calc, variant, now, db, mails, req, started, budget, hist>>

\* a wallet created with overdraft allowed
TxWalletOverdraft(p) ==
  /\ pc[p] = "reg_wallet"
  /\ tx' = [tx EXCEPT ![p].wallets =
              {[id |-> req[p].id, owner |-> req[p].id, allow_overdraft |-> TRUE]}]
  /\ Goto(p, "reg_commit")
  /\ UNCHANGED <<calc, variant, now, db, mails, req, loc, res, started, budget, hist>>

\* WalletStore::create inside the transaction; a storage failure drops the
\* transaction, which rolls it back
TxWallet(p) ==
  /\ pc[p] = "reg_wallet"
  /\ \/ /\ tx' = [tx EXCEPT ![p].wallets =
                    {[id |-> req[p].id, owner |-> req[p].id,
                      allow_overdraft |-> FALSE]}]
        /\ Goto(p, "reg_commit")
        /\ UNCHANGED <<res, loc, hist>>
     \/ /\ Finish(p, "Database")
        /\ hist' = [hist EXCEPT !.faults = @ \cup
                     {[id |-> req[p].id, email |-> req[p].email]}]
  /\ UNCHANGED <<calc, variant, now, db, mails, req, started, budget>>

\* tx.commit(): the rows become visible together
TxCommit(p) ==
  /\ pc[p] = "reg_commit"
  /\ actors' = actors \cup tx[p].actors
  /\ users' = users \cup tx[p].users
  /\ wallets' = wallets \cup tx[p].wallets
  /\ hist' = [hist EXCEPT !.registered = @ \cup
       {[id |-> req[p].id, email |-> req[p].email, pw |-> req[p].pw]}]
  /\ IF req[p].op = "register"
     THEN Finish(p, "Ok")
     ELSE Goto(p, "acc_delete") /\ tx' = [tx EXCEPT ![p] = NoTx]
          /\ UNCHANGED <<res, loc>>
  /\ UNCHANGED <<calc, variant, now, invites, sessions, transactions, mails, req,
                 started, budget>>

\* ------------------------------------------------------------- login
\* the tokens clients hold: session cookies set by a login, invitation tokens
\* of the invitations persisted so far
SessionTokens == {c.token : c \in hist.cookies}
InviteTokens == {i.token : i \in hist.invited}

\* POST /api/auth/login
StartLogin(p) ==
  \E e \in budget.logins, pw \in budget.pws :
    Begin(p, [NoReq EXCEPT !.op = "login", !.email = e, !.pw = pw,
                            !.late = ~UsersEmailFree(e)],
          IF variant = "layered" THEN "login_find" ELSE "sl_find")

\* a login that tells an unknown address from a wrong secret
LoginFindLeaky(p) ==
  /\ pc[p] = "login_find"
  /\ LET found == {u \in users : u.email = req[p].email} IN
     IF found = {} THEN Finish(p, "NotFound")
     ELSE \E u \in found :
            CASE verify(u.password, req[p].pw) = "Err" -> Finish(p, "PasswordHash")
              [] verify(u.password, req[p].pw) = "false" -> Finish(p, "Authentication")
              [] OTHER -> /\ loc' = [loc EXCEPT ![p].user = {u}]
                          /\ Goto(p, "login_create")
                          /\ UNCHANGED <<res, tx>>
  /\ UNCHANGED <<calc, variant, now, db, mails, req, started, budget, hist>>

\* AuthService::login
LoginFind(p) ==
  /\ pc[p] = "login_find"
  /\ LET found == {u \in users : u.email = req[p].email} IN
     IF found = {} THEN Finish(p, "Authentication")
     ELSE \E u \in found :
            CASE verify(u.password, req[p].pw) = "Err" -> Finish(p, "PasswordHash")
              [] verify(u.password, req[p].pw) = "false" -> Finish(p, "Authentication")
              [] OTHER -> /\ loc' = [loc EXCEPT ![p].user = {u}]
                          /\ Goto(p, "login_create")
                          /\ UNCHANGED <<res, tx>>
  /\ UNCHANGED <<calc, variant, now, db, mails, req, started, budget, hist>>

\* a login that replaces the sessions the user already has
InsertSessionRenew(p, days) ==
  /\ sessions' = {s \in sessions : s.user_id \notin {u.id : u \in loc[p].user}} \cup
       {[id |-> req[p].id, user_id |-> (CHOOSE u \in loc[p].user : TRUE).id,
         token |-> req[p].id, expires_at |-> now + days, created_at |-> now]}
  /\ hist' = [hist EXCEPT !.cookies = @ \cup
       {[token |-> req[p].id, issued |-> now, duration |-> days,
         user |-> (CHOOSE u \in loc[p].user : TRUE).id]}]

\* SessionStore::create with a fresh Uuid::new_v4 token

InsertSession(p, days) ==
  /\ sessions' = sessions \cup
       {[id |-> req[p].id, user_id |-> (CHOOSE u \in loc[p].user : TRUE).id,
         token |-> req[p].id, expires_at |-> now + days, created_at |-> now]}
  /\ hist' = [hist EXCEPT !.cookies = @ \cup
       {[token |-> req[p].id, issued |-> now, duration |-> days,
         user |-> (CHOOSE u \in loc[p].user : TRUE).id]}]

\* SessionService::create_session, SessionStore::create
CreateSession(p) ==
  /\ pc[p] = "login_create"
  /\ InsertSession(p, SessionExpirationDays)
  /\ Finish(p, "Ok")
  /\ UNCHANGED <<calc, variant, now, actors, users, wallets, invites, transactions,
                 mails, req, started, budget>>

\* features/login.rs handle: find_user and verify
SliceLoginFind(p) ==
  /\ pc[p] = "sl_find"
  /\ LET found == {u \in users : u.email = req[p].email} IN
     IF found = {} THEN Finish(p, "InvalidCredentials")
     ELSE \E u \in found :
            CASE verify(u.password, req[p].pw) = "Err" -> Finish(p, "Password")
              [] verify(u.password, req[p].pw) = "false" -> Finish(p, "InvalidCredentials")
              [] OTHER -> /\ loc' = [loc EXCEPT ![p].user = {u}]
                          /\ Goto(p, "sl_create")
                          /\ UNCHANGED <<res, tx>>
  /\ UNCHANGED <<calc, variant, now, db, mails, req, started, budget, hist>>

\* features/login.rs handle: create_session
SliceCreateSession(p) ==
  /\ pc[p] = "sl_create"
  /\ InsertSession(p, SliceSessionDays)
  /\ Finish(p, "Ok")
  /\ UNCHANGED <<calc, variant, now, actors, users, wallets, invites, transactions,
                 mails, req, started, budget>>

\* ------------------------------------------------------------- authenticated requests
\* GET /api/auth/me
StartMe(p) ==
  \E t \in SessionTokens :
    Begin(p, [NoReq EXCEPT !.op = "me", !.token = t,
                            !.late = (t \in hist.revoked)],
          IF variant = "layered" THEN "authn_find" ELSE "ss_find")

\* POST /api/invites
StartInvite(p) ==
  \E t \in SessionTokens, e \in budget.targets, role \in budget.roles :
    Begin(p, [NoReq EXCEPT !.op = "invite", !.token = t, !.email = e, !.role = role],
          IF variant = "layered" THEN "authn_find" ELSE "ss_find")

\* Authn::from_request_parts: SessionService::get_session, find and expiry check
AuthnFind(p) ==
  /\ pc[p] = "authn_find"
  /\ LET found == {s \in sessions : s.token = req[p].token} IN
     IF found = {} THEN FinishAt(p, "Authentication", now)
     ELSE \E s \in found :
            /\ loc' = [loc EXCEPT ![p].sess = {s}, ![p].at = now]
            /\ Goto(p, IF is_expired(s, now) THEN "authn_delete" ELSE "authn_user")
            /\ UNCHANGED <<res, tx>>
  /\ UNCHANGED <<calc, variant, now, db, mails, req, started, budget, hist>>

\* a delete that reports a missing row as a storage error
AuthnDeleteStrict(p) ==
  /\ pc[p] = "authn_delete"
  /\ sessions' = {s \in sessions : s.token # req[p].token}
  /\ Finish(p, IF sessions' = sessions THEN "Database" ELSE "Authentication")
  /\ UNCHANGED <<calc, variant, now, actors, users, wallets, invites, transactions,
                 mails, req, started, budget, hist>>

\* SessionService::get_session: SessionStore::delete_by_token, then Ok(None)
AuthnDelete(p) ==
  /\ pc[p] = "authn_delete"
  /\ sessions' = {s \in sessions : s.token # req[p].token}
  /\ Finish(p, "Authentication")
  /\ UNCHANGED <<calc, variant, now, actors, users, wallets, invites, transactions,
                 mails, req, started, budget, hist>>

\* the endpoint's checks without .can_assign(role)
AuthzInviteNoAssign(role, target_role) == has_permission(role, "SendInvite")

\* Authz(user).require(SendInvite) and .can_assign(role)
AuthzInvite(role, target_role) ==
  has_permission(role, "SendInvite") /\ can_assign_role(role, target_role)

\* Authn::from_request_parts: UserService::get_by_id; then the endpoint's checks
AuthnUser(p) ==
  /\ pc[p] = "authn_user"
  /\ LET found == {u \in users : \E s \in loc[p].sess : u.id = s.user_id} IN
     IF found = {} THEN Finish(p, "Authentication")
     ELSE \E u \in found :
            IF req[p].op = "me" THEN Finish(p, "Ok")
            ELSE IF ~AuthzInvite(role_from_string(u.role), req[p].role)
            THEN Finish(p, "Authorization")
            ELSE /\ loc' = [loc EXCEPT ![p].user = {u}]
                 /\ Goto(p, "inv_find")
                 /\ UNCHANGED <<res, tx>>
  /\ UNCHANGED <<calc, variant, now, db, mails, req, started, budget, hist>>

\* features/me.rs, features/send_invite.rs handle: find_session and expiry check
SliceFindSession(p) ==
  /\ pc[p] = "ss_find"
  /\ LET found == {s \in sessions : s.token = req[p].token} IN
     IF found = {} THEN FinishAt(p, "Unauthorized", now)
     ELSE \E s \in found :
            IF s.expires_at < now THEN FinishAt(p, "Unauthorized", now)
            ELSE /\ loc' = [loc EXCEPT ![p].sess = {s}, ![p].at = now]
                 /\ Goto(p, "ss_user")
                 /\ UNCHANGED <<res, tx>>
  /\ UNCHANGED <<calc, variant, now, db, mails, req, started, budget, hist>>

\* features/me.rs, features/send_invite.rs handle: find_user and the role checks
SliceFindUser(p) ==
  /\ pc[p] = "ss_user"
  /\ LET found == {u \in users : \E s \in loc[p].sess : u.id = s.user_id} IN
     IF found = {} THEN Finish(p, "Unauthorized")
     ELSE \E u \in found :
            IF req[p].op = "me" THEN Finish(p, "Ok")
            ELSE IF ~has_permission(role_from_string(u.role), "SendInvite")
                    \/ ~can_assign_role(role_from_string(u.role), req[p].role)
            THEN Finish(p, "Forbidden")
            ELSE /\ loc' = [loc EXCEPT ![p].user = {u}]
                 /\ Goto(p, "si_find")
                 /\ UNCHANGED <<res, tx>>
  /\ UNCHANGED <<calc, variant, now, db, mails, req, started, budget, hist>>

\* SessionService::end_session called directly with a token a login issued or
\* with a token no session carries (0)
StartEnd(p) ==
  /\ variant = "layered"
  /\ \E t \in SessionTokens \cup {0} :
       Begin(p, [NoReq EXCEPT !.op = "end", !.token = t,
                               !.late = (t \in hist.revoked)], "end_delete")

\* an end_session that reports a token without a session
EndSessionStrict(p) ==
  /\ pc[p] = "end_delete"
  /\ sessions' = {s \in sessions : s.token # req[p].token}
  /\ hist' = [hist EXCEPT !.revoked = @ \cup {req[p].token}]
  /\ IF \E s \in sessions : s.token = req[p].token
     THEN Finish(p, "Ok") ELSE Finish(p, "NotFound")
  /\ UNCHANGED <<calc, variant, now, actors, users, wallets, invites, transactions,
                 mails, req, started, budget>>

\* SessionService::end_session: SessionStore::delete_by_token, Ok(())
EndSession(p) ==
  /\ pc[p] = "end_delete"
  /\ sessions' = {s \in sessions : s.token # req[p].token}
  /\ hist' = [hist EXCEPT !.revoked = @ \cup {req[p].token}]
  /\ Finish(p, "Ok")
  /\ UNCHANGED <<calc, variant, now, actors, users, wallets, invites, transactions,
                 mails, req, started, budget>>

\* ------------------------------------------------------------- invite
InviteRow(p, invitor) ==
  [id |-> req[p].id, invitor |-> invitor, email |-> req[p].email,
   token |-> req[p].id, role |-> role_to_string(req[p].role),
   expires_at |-> now + InviteExpiresIn, created_at |-> now]

\* INSERT INTO invites: the row is committed at once (no transaction)
InsertInvite(p) ==
  \E u \in loc[p].user :
    /\ invites' = invites \cup {InviteRow(p, u.id)}
    /\ hist' = [hist EXCEPT !.invited = @ \cup {InviteRow(p, u.id)}]

\* an invite that replaces an invitation whose notification was not delivered
InviteFindResend(p) ==
  /\ pc[p] = "inv_find"
  /\ LET found == {i \in invites : i.email = req[p].email} IN
     IF found = {} THEN Goto(p, "inv_inviter") /\ UNCHANGED <<res, loc, tx>>
     ELSE \E i \in found :
            IF is_expired(i, now) \/ \A m \in mails : m.token # i.token
            THEN /\ loc' = [loc EXCEPT ![p].inv = {i}]
                 /\ Goto(p, "inv_delete")
                 /\ UNCHANGED <<res, tx>>
            ELSE FinishInv(p, "InviteAlreadySent", i)
  /\ UNCHANGED <<calc, variant, now, db, mails, req, started, budget, hist>>

\* InviteService::create_invite: InviteStore::find_by_email and is_expired
InviteFind(p) ==
  /\ pc[p] = "inv_find"
  /\ LET found == {i \in invites : i.email = req[p].email} IN
     IF found = {} THEN Goto(p, "inv_inviter") /\ UNCHANGED <<res, loc, tx>>
     ELSE \E i \in found :
            IF is_expired(i, now)
            THEN /\ loc' = [loc EXCEPT ![p].inv = {i}]
                 /\ Goto(p, "inv_delete")
                 /\ UNCHANGED <<res, tx>>
            ELSE FinishInv(p, "InviteAlreadySent", i)
  /\ UNCHANGED <<calc, variant, now, db, mails, req, started, budget, hist>>

\* InviteService::create_invite: InviteStore::delete_by_id of the expired row
InviteDeleteExpired(p) ==
  /\ pc[p] = "inv_delete"
  /\ invites' = {i \in invites : \A j \in loc[p].inv : i.id # j.id}
  /\ Goto(p, "inv_inviter")
  /\ UNCHANGED <<calc, variant, now, actors, users, wallets, sessions, transactions,
                 mails, req, loc, tx, res, started, budget, hist>>

\* InviteService::create_invite: UserStore::find_by_id of the inviter
InviteInviter(p) ==
  /\ pc[p] = "inv_inviter"
  /\ IF \E u \in users : \E v \in loc[p].user : u.id = v.id
     THEN Goto(p, "inv_create") /\ UNCHANGED <<res, loc, tx>>
     ELSE Finish(p, "InvitorMissing")
  /\ UNCHANGED <<calc, variant, now, db, mails, req, started, budget, hist>>

\* InviteService::create_invite: InviteStore::create; its sqlx::Error becomes
\* AppError::Database
InviteCreate(p) ==
  /\ pc[p] = "inv_create"
  /\ IF InvitesEmailFree(req[p].email)
     THEN /\ InsertInvite(p)
          /\ Goto(p, "inv_mail")
          /\ UNCHANGED <<res, loc, tx>>
     ELSE Finish(p, "Database") /\ UNCHANGED <<invites, hist>>
  /\ UNCHANGED <<calc, variant, now, actors, users, wallets, sessions, transactions,
                 mails, req, started, budget>>

\* a gateway failure that takes the invitation back
InviteMailRollback(p) ==
  /\ pc[p] \in {"inv_mail", "si_mail"}
  /\ \/ /\ mails' = mails \cup {[to |-> req[p].email, token |-> req[p].id]}
        /\ Finish(p, "Ok")
        /\ UNCHANGED invites
     \/ /\ Finish(p, "Email")
        /\ invites' = {i \in invites : i.id # req[p].id}
        /\ UNCHANGED mails
  /\ UNCHANGED <<calc, variant, now, actors, users, wallets, sessions, transactions,
                 req, started, budget, hist>>

\* EmailService::send_invite / send_email: the gateway delivers or fails
InviteMail(p) ==
  /\ pc[p] \in {"inv_mail", "si_mail"}
  /\ \/ /\ mails' = mails \cup {[to |-> req[p].email, token |-> req[p].id]}
        /\ Finish(p, "Ok")
     \/ /\ Finish(p, "Email")
        /\ UNCHANGED mails
  /\ UNCHANGED <<calc, variant, now, db, req, started, budget, hist>>

\* features/send_invite.rs handle: find_invite_by_email
SliceInviteFind(p) ==
  /\ pc[p] = "si_find"
  /\ LET found == {i \in invites : i.email = req[p].email} IN
     IF found = {} THEN Goto(p, "si_create") /\ UNCHANGED <<res, loc, tx>>
     ELSE \E i \in found : FinishInv(p, "AlreadySent", i)
  /\ UNCHANGED <<calc, variant, now, db, mails, req, started, budget, hist>>

\* features/send_invite.rs handle: create_invite
SliceInviteCreate(p) ==
  /\ pc[p] = "si_create"
  /\ IF InvitesEmailFree(req[p].email)
     THEN /\ InsertInvite(p)
          /\ Goto(p, "si_mail")
          /\ UNCHANGED <<res, loc, tx>>
     ELSE Finish(p, "Database") /\ UNCHANGED <<invites, hist>>
  /\ UNCHANGED <<calc, variant, now, actors, users, wallets, sessions, transactions,
                 mails, req, started, budget>>

\* ------------------------------------------------------------- accept
\* POST /api/invites/{token}/accept
StartAccept(p) ==
  \E t \in InviteTokens :
    Begin(p, [NoReq EXCEPT !.op = "accept", !.token = t, !.pw = GoodPw,
                            !.late = (t \in hist.accepted)],
          IF variant = "layered" THEN "acc_find" ELSE "sa_find")

\* an accept without the expiry check
AcceptFindNoExpiry(p) ==
  /\ pc[p] = "acc_find"
  /\ LET found == {i \in invites : i.token = req[p].token} IN
     IF found = {} THEN FinishAt(p, "NotFound", now) /\ UNCHANGED req
     ELSE \E i \in found :
            /\ loc' = [loc EXCEPT ![p].inv = {i}, ![p].at = now]
            /\ req' = [req EXCEPT ![p].email = i.email,
                                  ![p].role = role_from_string(i.role)]
            /\ Goto(p, "reg_find")
            /\ UNCHANGED <<res, tx>>
  /\ UNCHANGED <<calc, variant, now, db, mails, started, budget, hist>>

\* an accept that deletes the invitation before it registers
AcceptFindDeleteFirst(p) ==
  /\ pc[p] = "acc_find"
  /\ LET found == {i \in invites : i.token = req[p].token} IN
     IF found = {} THEN FinishAt(p, "NotFound", now) /\ UNCHANGED <<req, invites>>
     ELSE \E i \in found :
            IF is_expired(i, now)
            THEN FinishAt(p, "InviteExpired", now) /\ UNCHANGED <<req, invites>>
            ELSE /\ loc' = [loc EXCEPT ![p].inv = {i}, ![p].at = now]
                 /\ req' = [req EXCEPT ![p].email = i.email,
                                       ![p].role = role_from_string(i.role)]
                 /\ invites' = invites \ {i}
                 /\ Goto(p, "reg_find")
                 /\ UNCHANGED <<res, tx>>
  /\ UNCHANGED <<calc, variant, now, actors, users, wallets, sessions, transactions,
                 mails, started, budget, hist>>

\* InviteService::accept_invite: InviteStore::find_by_token and is_expired; the
\* invitation's address and role are the arguments of register
AcceptFind(p) ==
  /\ pc[p] = "acc_find"
  /\ LET found == {i \in invites : i.token = req[p].token} IN
     IF found = {} THEN FinishAt(p, "NotFound", now) /\ UNCHANGED req
     ELSE \E i \in found :
            IF is_expired(i, now)
            THEN FinishAt(p, "InviteExpired", now) /\ UNCHANGED req
            ELSE /\ loc' = [loc EXCEPT ![p].inv = {i}, ![p].at = now]
                 /\ req' = [req EXCEPT ![p].email = i.email,
                                       ![p].role = role_from_string(i.role)]
                 /\ Goto(p, "reg_find")
                 /\ UNCHANGED <<res, tx>>
  /\ UNCHANGED <<calc, variant, now, db, mails, started, budget, hist>>

\* features/accept_invite.rs handle: find_invite and the expiry check
SliceAcceptFind(p) ==
  /\ pc[p] = "sa_find"
  /\ LET found == {i \in invites : i.token = req[p].token} IN
     IF found = {} THEN FinishAt(p, "NotFound", now) /\ UNCHANGED req
     ELSE \E i \in found :
            IF i.expires_at < now
            THEN FinishAt(p, "Expired", now) /\ UNCHANGED req
            ELSE /\ loc' = [loc EXCEPT ![p].inv = {i}, ![p].at = now]
                 /\ req' = [req EXCEPT ![p].email = i.email,
                                       ![p].role = role_from_string(i.role)]
                 /\ Goto(p, "sa_exists")
                 /\ UNCHANGED <<res, tx>>
  /\ UNCHANGED <<calc, variant, now, db, mails, started, budget, hist>>

\* features/accept_invite.rs handle: user_exists
SliceUserExists(p) ==
  /\ pc[p] = "sa_exists"
  /\ IF \E u \in users : u.email = req[p].email
     THEN Finish(p, "UserExists")
     ELSE Goto(p, "reg_actor") /\ UNCHANGED <<res, loc, tx>>
  /\ UNCHANGED <<calc, variant, now, db, mails, req, started, budget, hist>>

\* an accept that leaves the invitation stored
AcceptKeep(p) ==
  /\ pc[p] = "acc_delete"
  /\ hist' = [hist EXCEPT !.accepted = @ \cup {req[p].token}]
  /\ Finish(p, "Ok")
  /\ UNCHANGED <<calc, variant, now, db, mails, req, started, budget>>

\* InviteStore::delete_by_id after register returned / delete_invite
AcceptDelete(p) ==
  /\ pc[p] = "acc_delete"
  /\ invites' = {i \in invites : \A j \in loc[p].inv : i.id # j.id}
  /\ hist' = [hist EXCEPT !.accepted = @ \cup {req[p].token}]
  /\ Finish(p, "Ok")
  /\ UNCHANGED <<calc, variant, now, actors, users, wallets, sessions, transactions,
                 mails, req, started, budget>>

Next ==
  \/ Tick
  \/ \E p \in Procs :
       \/ StartRegister(p)
       \/ RegisterFind(p)
       \/ TxActor(p)
       \/ TxUser(p)
       \/ TxWallet(p)
       \/ TxCommit(p)
       \/ StartLogin(p)
       \/ LoginFind(p)
       \/ CreateSession(p)
       \/ SliceLoginFind(p)
       \/ SliceCreateSession(p)
       \/ StartMe(p)
       \/ StartInvite(p)
       \/ AuthnFind(p)
       \/ AuthnDelete(p)
       \/ AuthnUser(p)
       \/ SliceFindSession(p)
       \/ SliceFindUser(p)
       \/ InviteFind(p)
       \/ InviteDeleteExpired(p)
       \/ InviteInviter(p)
       \/ InviteCreate(p)
       \/ InviteMail(p)
       \/ SliceInviteFind(p)
       \/ SliceInviteCreate(p)
       \/ StartAccept(p)
       \/ AcceptFind(p)
       \/ SliceAcceptFind(p)
       \/ SliceUserExists(p)
       \/ AcceptDelete(p)
       \/ StartEnd(p)
       \/ EndSession(p)

\* IntoResponse for ApiError / for the slice handlers' Error: the status and the
\* message of the response a result is turned into
into_response(result) ==
  CASE result = "Ok" -> <<200, "">>
    [] result = "Authentication" -> <<401, "Authentication failed">>
    [] result = "InvalidCredentials" -> <<401, "Invalid credentials">>
    [] result = "Unauthorized" -> <<401, "Unauthorized">>
    [] result = "Authorization" -> <<403, "Permission denied">>
    [] result = "Forbidden" -> <<403, "Forbidden">>
    [] result = "NotFound" ->
         IF variant = "layered" THEN <<404, "Resource not found">>
         ELSE <<404, "Invite not found">>
    [] result \in {"UserAlreadyExists", "UserExists"} -> <<409, "User already exists">>
    [] result \in {"InviteAlreadySent", "AlreadySent"} -> <<409, "Invite already sent">>
    [] result \in {"InviteExpired", "Expired"} -> <<400, "Invite expired">>
    [] result \in {"Database", "PasswordHash", "Email", "InvitorMissing"} ->
         IF variant = "layered" THEN <<500, "Internal server error">>
         ELSE <<500, "Internal error">>
    [] result = "Password" -> <<500, "Internal error">>
    [] OTHER -> <<500, result>>

Spec == Init /\ [][Next]_vars

\* ------------------------------------------------------------- domain types
\* The functions of the domain types are called on their own: the initial state
\* holds the arguments of one call, the action of the function called applies
\* it and stores its result.
sys == <<variant, now, actors, users, wallets, invites, sessions, transactions,
         mails, pc, req, loc, tx, res, started, budget, hist>>

Call(op, args) == [op |-> op, args |-> args, out |-> <<>>]

RoleCalls == {Call("can_assign_role", <<g, t>>) : g \in Roles, t \in Roles}

\* perms.iter().any(|p| role.has_permission(*p)): stops at the first one held
RECURSIVE iter_any(_, _)
iter_any(role, perms) ==
  IF perms = <<>> THEN FALSE
  ELSE IF has_permission(role, Head(perms)) THEN TRUE
  ELSE iter_any(role, Tail(perms))

\* perms.iter().all(|p| role.has_permission(*p)): stops at the first one missing
RECURSIVE iter_all(_, _)
iter_all(role, perms) ==
  IF perms = <<>> THEN TRUE
  ELSE IF ~has_permission(role, Head(perms)) THEN FALSE
  ELSE iter_all(role, Tail(perms))

\* Authz::require, Authz::require_any, Authz::require_all, Authz::can_assign
require(role, perm) ==
  IF has_permission(role, perm) THEN "Ok" ELSE "Authorization"

\* a require_any that lets the empty list pass
require_any_lenient(role, perms) ==
  IF perms = <<>> \/ iter_any(role, perms) THEN "Ok" ELSE "Authorization"

require_any(role, perms) ==
  IF iter_any(role, perms) THEN "Ok" ELSE "Authorization"

require_all(role, perms) ==
  IF iter_all(role, perms) THEN "Ok" ELSE "Authorization"

can_assign(role, target_role) ==
  IF can_assign_role(role, target_role) THEN "Ok" ELSE "Authorization"

\* the permission lists handed to require_any / require_all
PermLists == UNION {[1..n -> Permissions] : n \in 0..MaxPerms}

AuthzCalls ==
  {Call("require", <<r, q>>) : r \in Roles, q \in Permissions}
    \cup {Call("require_any", <<r, l>>) : r \in Roles, l \in PermLists}
    \cup {Call("require_all", <<r, l>>) : r \in Roles, l \in PermLists}
    \cup {Call("can_assign", <<r, t>>) : r \in Roles, t \in Roles}

\* values the users.role column can hold: the three names Display writes and
\* two that no Role is written as
StoredRoles == {"owner", "admin", "undefined", "superuser", ""}

FromStringCalls == {Call("role_from_string", <<s>>) : s \in StoredRoles}

\* a Debug that forwards to the wrapped value, as #[derive(Debug)] would
fmt_derived(type, value) == value

\* impl fmt::Debug for RawPassword / HashedPassword / Email: write!(f, "...")
\* with a literal and no argument
fmt(type, value) ==
  CASE type = "RawPassword" -> "RawPassword(***)"
    [] type = "HashedPassword" -> "HashedPassword(***)"
    [] type = "Email" -> "Email(***)"

\* the values each redacting type is built around
Wrapped(type) ==
  CASE type = "RawPassword" -> {GoodPw, "wrong-pw", ""}
    [] type = "HashedPassword" -> {"$argon2id$v=19$a", "$argon2id$v=19$b", "plain"}
    [] type = "Email" -> {OwnerEmail, "new@x", "test@mail.com"}

\* format!("{:?}", a) and format!("{:?}", b) of two values of one type
DebugCalls ==
  UNION {{Call("fmt", <<ty, a, b>>) : a \in Wrapped(ty), b \in Wrapped(ty)} :
           ty \in {"RawPassword", "HashedPassword", "Email"}}

\* ------------------------------------------------------------------------ Money
\* Money(i64), the integer kept at MoneyBits bits in two's complement
i64_MAX == 2 ^ (MoneyBits - 1) - 1
i64_MIN == -(2 ^ (MoneyBits - 1))
Amounts == i64_MIN..i64_MAX

\* the low MoneyBits bits of x, read as a signed integer
wrapping(x) == ((x - i64_MIN) % (2 ^ MoneyBits)) + i64_MIN

\* overflow of the signed sum: the operands agree in sign and the sum does not
add_overflows(a, b) == ((a >= 0) = (b >= 0)) /\ ((wrapping(a + b) >= 0) # (a >= 0))

\* overflow of the signed difference: the operands differ in sign and the
\* difference has not the sign of the minuend
sub_overflows(a, b) == ((a >= 0) # (b >= 0)) /\ ((wrapping(a - b) >= 0) # (a >= 0))

\* Money::checked_add / checked_sub / checked_neg over i64::checked_*
checked_add(a, b) ==
  IF add_overflows(a, b) THEN <<"None">> ELSE <<"Some", wrapping(a + b)>>

checked_sub(a, b) ==
  IF sub_overflows(a, b) THEN <<"None">> ELSE <<"Some", wrapping(a - b)>>

checked_neg(a) ==
  IF a = i64_MIN THEN <<"None">> ELSE <<"Some", wrapping(0 - a)>>

\* Money::saturating_add / saturating_sub over i64::saturating_*
saturating_add(a, b) ==
  IF add_overflows(a, b) THEN (IF a < 0 THEN i64_MIN ELSE i64_MAX)
  ELSE wrapping(a + b)

saturating_sub(a, b) ==
  IF sub_overflows(a, b) THEN (IF a < 0 THEN i64_MIN ELSE i64_MAX)
  ELSE wrapping(a - b)

\* i64::saturating_neg
saturating_neg(a) == IF a = i64_MIN THEN i64_MAX ELSE wrapping(0 - a)

\* an addition that wraps around
add_wrapping(a, b) == wrapping(a + b)

\* impl Add / Sub / Neg for Money
add(a, b) == saturating_add(a, b)

sub(a, b) == saturating_sub(a, b)

neg(a) == saturating_neg(a)

\* i64::saturating_abs: the absolute value, MAX for MIN
saturating_abs(a) ==
  IF a = i64_MIN THEN i64_MAX ELSE IF a < 0 THEN wrapping(0 - a) ELSE a

\* Money::as_major: self.0 / 100, the quotient rounded toward zero
as_major(a) == IF a < 0 THEN 0 - ((0 - a) \div 100) ELSE a \div 100

\* Money::cents: (self.0.saturating_abs() as u64) % 100
cents(a) == saturating_abs(a) % 100

\* {:02} of a number below 100: its two decimal digits
two_digits(n) == <<n \div 10, n % 10>>

\* impl Display for Money: the sign, the major units as a number, the dot and
\* the two digits of the cents
to_string(a) ==
  IF a < 0
  THEN <<"-", saturating_abs(as_major(a)), ".">> \o two_digits(cents(a))
  ELSE <<"", as_major(a), ".">> \o two_digits(cents(a))

DisplayCalls == {Call(op, <<a>>) : op \in {"cents", "to_string"}, a \in Amounts}

MoneyCalls ==
  {Call(op, <<a, b>>) : op \in {"add", "sub", "checked_add", "checked_sub"},
                        a \in Amounts, b \in Amounts}
    \cup {Call(op, <<a>>) : op \in {"neg", "checked_neg"}, a \in Amounts}

\* a.can_assign_role(b), b.can_assign_role(c) and a.can_assign_role(c)
ChainCalls == {Call("can_assign_chain", <<a, b, c>>) : a \in Roles, b \in Roles, c \in Roles}

\* ----------------------------------------------------------------------- ledger
\* the wallets transactions are saved between, and the amounts they carry
LedgerWallets == {SeedId, SeedId + 1}
LedgerAmounts == {1, 2}

BalanceCalls == {Call("calculate_wallet_balance", <<w>>) : w \in LedgerWallets}

Calls == RoleCalls \cup AuthzCalls \cup FromStringCalls \cup DebugCalls \cup MoneyCalls \cup ChainCalls \cup BalanceCalls \cup DisplayCalls

TypesInit ==
  /\ variant = "layered"
  /\ budget = NoWork
  /\ calc \in Calls
  /\ Seeded

\* Role::can_assign_role(self, target_role)
CallCanAssignRole ==
  /\ calc.op = "can_assign_role" /\ calc.out = <<>>
  /\ calc' = [calc EXCEPT !.out = <<can_assign_role(calc.args[1], calc.args[2])>>]
  /\ UNCHANGED sys

CallRequire ==
  /\ calc.op = "require" /\ calc.out = <<>>
  /\ calc' = [calc EXCEPT !.out = <<require(calc.args[1], calc.args[2])>>]
  /\ UNCHANGED sys

CallRequireAny ==
  /\ calc.op = "require_any" /\ calc.out = <<>>
  /\ calc' = [calc EXCEPT !.out = <<require_any(calc.args[1], calc.args[2])>>]
  /\ UNCHANGED sys

CallRequireAll ==
  /\ calc.op = "require_all" /\ calc.out = <<>>
  /\ calc' = [calc EXCEPT !.out = <<require_all(calc.args[1], calc.args[2])>>]
  /\ UNCHANGED sys

CallCanAssign ==
  /\ calc.op = "can_assign" /\ calc.out = <<>>
  /\ calc' = [calc EXCEPT !.out = <<can_assign(calc.args[1], calc.args[2])>>]
  /\ UNCHANGED sys

\* UserRow -> User reads the role column with Role::from(String)
CallRoleFromString ==
  /\ calc.op = "role_from_string" /\ calc.out = <<>>
  /\ calc' = [calc EXCEPT !.out = <<role_from_string(calc.args[1])>>]
  /\ UNCHANGED sys

CallFmt ==
  /\ calc.op = "fmt" /\ calc.out = <<>>
  /\ calc' = [calc EXCEPT !.out = <<fmt(calc.args[1], calc.args[2]),
                                    fmt(calc.args[1], calc.args[3])>>]
  /\ UNCHANGED sys

CallAdd ==
  /\ calc.op = "add" /\ calc.out = <<>>
  /\ calc' = [calc EXCEPT !.out = <<add(calc.args[1], calc.args[2])>>]
  /\ UNCHANGED sys

CallSub ==
  /\ calc.op = "sub" /\ calc.out = <<>>
  /\ calc' = [calc EXCEPT !.out = <<sub(calc.args[1], calc.args[2])>>]
  /\ UNCHANGED sys

CallNeg ==
  /\ calc.op = "neg" /\ calc.out = <<>>
  /\ calc' = [calc EXCEPT !.out = <<neg(calc.args[1])>>]
  /\ UNCHANGED sys

CallCheckedAdd ==
  /\ calc.op = "checked_add" /\ calc.out = <<>>
  /\ calc' = [calc EXCEPT !.out = <<checked_add(calc.args[1], calc.args[2])>>]
  /\ UNCHANGED sys

CallCheckedSub ==
  /\ calc.op = "checked_sub" /\ calc.out = <<>>
  /\ calc' = [calc EXCEPT !.out = <<checked_sub(calc.args[1], calc.args[2])>>]
  /\ UNCHANGED sys

CallCheckedNeg ==
  /\ calc.op = "checked_neg" /\ calc.out = <<>>
  /\ calc' = [calc EXCEPT !.out = <<checked_neg(calc.args[1])>>]
  /\ UNCHANGED sys

CallCanAssignChain ==
  /\ calc.op = "can_assign_chain" /\ calc.out = <<>>
  /\ calc' = [calc EXCEPT !.out = <<can_assign_role(calc.args[1], calc.args[2]),
                                    can_assign_role(calc.args[2], calc.args[3]),
                                    can_assign_role(calc.args[1], calc.args[3])>>]
  /\ UNCHANGED sys

\* TransactionStore::create: INSERT INTO transactions, before the balance is read
TransactionCreate ==
  /\ calc.op = "calculate_wallet_balance" /\ calc.out = <<>>
  /\ Cardinality(transactions) < MaxLedger
  /\ \E s \in LedgerWallets, d \in LedgerWallets, a \in LedgerAmounts :
       transactions' = transactions \cup
         {[id |-> Cardinality(transactions) + 1, source |-> s, destination |-> d,
           amount_cents |-> a]}
  /\ UNCHANGED <<calc, variant, now, actors, users, wallets, invites, sessions,
                 mails, pc, req, loc, tx, res, started, budget, hist>>

CallCalculateWalletBalance ==
  /\ calc.op = "calculate_wallet_balance" /\ calc.out = <<>>
  /\ calc' = [calc EXCEPT !.out = <<calculate_wallet_balance(calc.args[1])>>]
  /\ UNCHANGED sys

CallCents ==
  /\ calc.op = "cents" /\ calc.out = <<>>
  /\ calc' = [calc EXCEPT !.out = <<cents(calc.args[1])>>]
  /\ UNCHANGED sys

CallToString ==
  /\ calc.op = "to_string" /\ calc.out = <<>>
  /\ calc' = [calc EXCEPT !.out = <<to_string(calc.args[1])>>]
  /\ UNCHANGED sys

TypesNext ==
  \/ CallCanAssignRole
  \/ CallRequire
  \/ CallRequireAny
  \/ CallRequireAll
  \/ CallCanAssign
  \/ CallRoleFromString
  \/ CallFmt
  \/ CallAdd
  \/ CallSub
  \/ CallNeg
  \/ CallCheckedAdd
  \/ CallCheckedSub
  \/ CallCheckedNeg
  \/ CallCanAssignChain
  \/ TransactionCreate
  \/ CallCalculateWalletBalance
  \/ CallCents
  \/ CallToString

TypesSpec == TypesInit /\ [][TypesNext]_vars

\* ============================================================= properties
Unauthenticated == {"Authentication", "Unauthorized"}
AlreadyExists == {"UserAlreadyExists", "UserExists"}
AlreadyInvited == {"InviteAlreadySent", "AlreadySent"}
Forbidden == {"Authorization", "Forbidden"}
Expired == {"InviteExpired", "Expired"}

Done(p, op) == pc[p] = "done" /\ req[p].op = op

\* some committed actor, user or wallet row was written by request id
Wrote(id) ==
  \/ id \in actors
  \/ \E u \in users : u.id = id \/ u.actor_id = id
  \/ \E w \in wallets : w.id = id \/ w.owner = id

\* C1: a register that fails after its actor or user insert (the wallet insert
\* fails) leaves no actor, user or wallet of that call visible, and a register
\* is refused as AlreadyExists only because of a committed user of a call that
\* did not fail, so the address stays free for a later register.
C1_RegisterRollsBack ==
  /\ \A f \in hist.faults : ~Wrote(f.id)
  /\ \A p \in Procs :
       (pc[p] = "done" /\ req[p].op \in {"register", "accept"}) =>
         /\ res[p] # "Ok" => ~Wrote(req[p].id)
         /\ res[p] \in AlreadyExists =>
              \E u \in users : /\ u.email = req[p].email
                                /\ \A f \in hist.faults : f.id # u.id

\* a register succeeded for an address an earlier register failed for at the
\* wallet insert
C1_Witness ==
  \E p \in Procs : \E f \in hist.faults :
    /\ Done(p, "register") /\ res[p] = "Ok"
    /\ f.email = req[p].email /\ f.id < req[p].id
    /\ \E u \in users : u.id = req[p].id /\ u.email = f.email

\* the cookie a validating request presents
CookieOf(p) == {c \in hist.cookies : c.token = req[p].token}
Validated(p) == pc[p] = "done" /\ req[p].op \in {"me", "invite"}

C3_AcceptSingleUse ==
  /\ \A t \in hist.accepted : \A i \in invites : i.token # t
  /\ \A p \in Procs :
       (req[p].op = "accept" /\ req[p].late) =>
         /\ tx[p] = NoTx
         /\ ~Wrote(req[p].id)
         /\ pc[p] = "done" => res[p] = "NotFound"

\* an accept of an already accepted token returned NotFound
C3_Witness ==
  \E p \in Procs : Done(p, "accept") /\ req[p].late /\ res[p] = "NotFound"

\* C4: an invite fails AlreadyInvited only while the invitation it found for
\* the address is unexpired; once that invitation has expired a second invite
\* to the address is not refused.
C4_InviteExclusivity ==
  \A p \in Procs :
    (Done(p, "invite") /\ res[p] \in AlreadyInvited) =>
      \A i \in loc[p].inv : loc[p].inv_at <= i.expires_at

CallerRoles(p) ==
  {role_from_string(u.role) : u \in {v \in users : \E c \in CookieOf(p) : v.id = c.user}}

\* C6: an invitation is persisted only if the inviter's role holds SendInvite
\* and may assign the target role; a call that lacks either fails Forbidden
\* (or unauthenticated) and persists and sends nothing.
C6_InviteAuthority ==
  /\ \A i \in hist.invited :
       \E u \in users :
         /\ u.id = i.invitor
         /\ has_permission(role_from_string(u.role), "SendInvite")
         /\ can_assign_role(role_from_string(u.role), role_from_string(i.role))
  /\ \A p \in Procs : Done(p, "invite") =>
       /\ res[p] \in Forbidden =>
            /\ \A i \in hist.invited : i.id # req[p].id
            /\ \A m \in mails : m.token # req[p].id
       /\ \A r \in CallerRoles(p) :
            ~(has_permission(r, "SendInvite") /\ can_assign_role(r, req[p].role))
              => res[p] \in Forbidden \cup Unauthenticated

\* an Admin's invite granting Owner was refused Forbidden
C6_Witness ==
  \E p \in Procs :
    /\ Done(p, "invite") /\ res[p] \in Forbidden
    /\ CallerRoles(p) = {"Admin"} /\ req[p].role = "Owner"

\* C7: a register that meets no storage fault either commits or fails
\* AlreadyExists, also when a concurrent register for the same address commits
\* between its pre-check and its insert.
C7_RegisterRace ==
  \A p \in Procs :
    (Done(p, "register") /\ \A f \in hist.faults : f.id # req[p].id) =>
      res[p] \in {"Ok"} \cup AlreadyExists

\* C8: an invite whose insert loses to a concurrent invite for the same
\* address fails AlreadyInvited, never with a storage error.
C8_InviteRace ==
  \A p \in Procs : Done(p, "invite") => res[p] # "Database"

\* C9: no two principals share an address, and a register for an address that
\* a principal already holds fails AlreadyExists and writes nothing.
C9_AddressUnique ==
  /\ \A u, v \in users : u.email = v.email => u = v
  /\ \A p \in Procs :
       (req[p].op = "register" /\ req[p].late) =>
         /\ tx[p] = NoTx
         /\ ~Wrote(req[p].id)
         /\ pc[p] = "done" => res[p] = "UserAlreadyExists"

\* a register for a taken address was refused
C9_Witness ==
  \E p \in Procs :
    /\ Done(p, "register") /\ req[p].late /\ res[p] = "UserAlreadyExists"
    /\ \E u \in users : u.email = req[p].email /\ u.id # req[p].id

\* C10: after a successful accept of an invitation for address A with role R
\* a principal with A and R exists, no invitation with the token is stored,
\* and exactly one wallet belongs to the principal's anchor, with overdraft
\* disabled and balance zero.
C10_AcceptResult ==
  \A p \in Procs :
    (Done(p, "accept") /\ res[p] = "Ok") =>
      \A i \in {j \in hist.invited : j.token = req[p].token} :
        /\ \A j \in invites : j.token # i.token
        /\ \E u \in users :
             /\ u.id = req[p].id /\ u.email = i.email
             /\ role_from_string(u.role) = role_from_string(i.role)
             /\ LET ws == {w \in wallets : w.owner = u.actor_id} IN
                  /\ Cardinality(ws) = 1
                  /\ \A w \in ws : /\ ~w.allow_overdraft
                                    /\ calculate_wallet_balance(w.id) = 0

\* an accept succeeded while the ledger holds a balance for another wallet
C10_Witness ==
  \E p \in Procs :
    /\ Done(p, "accept") /\ res[p] = "Ok"
    /\ \E w \in wallets : w.owner = req[p].id
    /\ calculate_wallet_balance(SeedId) # 0

\* C11: when the notification gateway fails during invite the call returns an
\* error (Email) and the invitation the call inserted stays stored: the step
\* that fails leaves the invites table as it is, and a call that returned
\* Email has persisted its invitation and handed no mail to the gateway.
C11_MailFailureKeepsInvite ==
  [][\A p \in Procs :
       ( /\ pc[p] \in {"inv_mail", "si_mail"}
         /\ pc'[p] = "done"
         /\ mails' = mails )
       => /\ res'[p] = "Email"
          /\ invites' = invites
          /\ \E i \in hist.invited : i.id = req[p].id]_vars

\* an invite returned the gateway's error and its invitation is stored
C11_Witness ==
  \E p \in Procs :
    /\ Done(p, "invite") /\ res[p] = "Email"
    /\ \E i \in invites : i.id = req[p].id /\ i.email = req[p].email
    /\ \A m \in mails : m.token # req[p].id

\* a finished login whose address no principal holds / whose secret does not
\* match the stored hash of the principal holding the address
UnknownAddress(p) ==
  Done(p, "login") /\ \A u \in users : u.email # req[p].email
WrongSecret(p) ==
  /\ Done(p, "login")
  /\ \E u \in users : u.email = req[p].email /\ verify(u.password, req[p].pw) = "false"

\* C12: a login with an unknown address and a login with a known address and a
\* wrong secret return the same error value (Authentication / InvalidCredentials)
\* and the same response, and neither creates a session.
C12_LoginIndistinguishable ==
  \A p, q \in Procs :
    ((UnknownAddress(p) \/ WrongSecret(p)) /\ (UnknownAddress(q) \/ WrongSecret(q))) =>
      /\ res[p] = res[q]
      /\ res[p] \in {"Authentication", "InvalidCredentials"}
      /\ into_response(res[p]) = into_response(res[q])
      /\ into_response(res[p])[1] = 401
      /\ \A s \in sessions : s.token # req[p].id
      /\ \A c \in hist.cookies : c.token # req[p].id

\* one login with an unknown address and one with a wrong secret have both
\* returned
C12_Witness ==
  \E p, q \in Procs :
    UnknownAddress(p) /\ WrongSecret(q) /\ res[p] = res[q] /\ sessions = {}

\* C13: after register(a, s) succeeded, login(a, s) succeeds and returns that
\* principal, and login(a, s2) with another secret fails InvalidCredentials;
\* a mismatch is reported as false, never as a hashing error, and a stored hash
\* that cannot be parsed is reported as a hashing error.
C13_RegisterThenLogin ==
  /\ \A s, s2 \in {"secret-pw", "wrong-pw"} :
       verify(hash(s, SeedId), s2) = (IF s = s2 THEN "true" ELSE "false")
  /\ verify(Malformed, GoodPw) = "Err"
  /\ \A p \in Procs : (Done(p, "login") /\ req[p].late) =>
       /\ \A g \in hist.registered : g.email = req[p].email =>
            /\ req[p].pw = g.pw =>
                 /\ res[p] = "Ok"
                 /\ \E c \in hist.cookies : c.token = req[p].id /\ c.user = g.id
            /\ req[p].pw # g.pw => res[p] \in {"Authentication", "InvalidCredentials"}
       /\ \A u \in users : (u.email = req[p].email /\ u.password = Malformed) =>
            res[p] \in {"PasswordHash", "Password"}

\* a login with the secret of an earlier register succeeded, one with another
\* secret was refused
C13_Witness ==
  \E p, q \in Procs : \E g \in hist.registered :
    /\ Done(p, "login") /\ req[p].late /\ req[p].email = g.email
    /\ req[p].pw = g.pw /\ res[p] = "Ok"
    /\ Done(q, "login") /\ req[q].late /\ req[q].email = g.email
    /\ req[q].pw # g.pw /\ res[q] = "Authentication"

\* C14: end_session(token) returns Ok whether or not a session carries the
\* token; it deletes exactly the sessions with that token and leaves the
\* others as they are; a second call for the token changes nothing; and a
\* validation of the token that starts after the call fails Unauthenticated.
C14_EndSessionIdempotent ==
  /\ [](/\ \A p \in Procs : Done(p, "end") => res[p] = "Ok"
        /\ \A t \in hist.revoked : \A s \in sessions : s.token # t
        /\ \A p \in Procs : (Done(p, "me") /\ req[p].late) =>
             res[p] \in Unauthenticated)
  /\ [][\A p \in Procs :
          (pc[p] = "end_delete" /\ pc'[p] = "done") =>
            /\ sessions' = {s \in sessions : s.token # req[p].token}
            /\ req[p].token \in hist.revoked => sessions' = sessions
            /\ <<actors, users, wallets, invites, transactions>>' =
                 <<actors, users, wallets, invites, transactions>>]_vars

\* a second end_session for a token returned Ok while the session of another
\* token is still stored, and a validation of the revoked token was refused
C14_Witness ==
  \E p, q \in Procs :
    /\ Done(p, "end") /\ req[p].late /\ res[p] = "Ok"
    /\ Done(q, "me") /\ req[q].late /\ req[q].token = req[p].token
    /\ res[q] \in Unauthenticated
    /\ \E s \in sessions : s.token # req[p].token

Returned(op) == calc.op = op /\ calc.out # <<>>

\* C15: can_assign_role(g, t) is true exactly for (Owner, Owner),
\* (Owner, Admin) and (Admin, Admin).
C15_AssignTable ==
  Returned("can_assign_role") =>
    calc.out[1] = (calc.args \in {<<"Owner", "Owner">>, <<"Owner", "Admin">>,
                                  <<"Admin", "Admin">>})

\* Admin was refused the assignment of Owner
C15_Witness ==
  Returned("can_assign_role") /\ calc.args = <<"Admin", "Owner">>
    /\ calc.out = <<FALSE>>

\* C16 as stated: every role can assign itself.
C16_AsStated ==
  (Returned("can_assign_role") /\ calc.args[1] = calc.args[2]) =>
    calc.out[1] = TRUE

\* C16 amended: Owner and Admin can assign themselves, Undefined cannot.
C16_ReflexiveOnNamedRoles ==
  (Returned("can_assign_role") /\ calc.args[1] = calc.args[2]) =>
    calc.out[1] = (calc.args[1] \in {"Owner", "Admin"})

\* Undefined was refused the assignment of Undefined
C16_Witness ==
  Returned("can_assign_role") /\ calc.args = <<"Undefined", "Undefined">>
    /\ calc.out = <<FALSE>>

OkIff(cond) == IF cond THEN <<"Ok">> ELSE <<"Authorization">>

\* C17: for a principal of role r, require(p) is Ok iff r holds p;
\* require_any(L) is Ok iff r holds some permission of L (Forbidden for the
\* empty list); require_all(L) is Ok iff r holds every permission of L (Ok for
\* the empty list); can_assign(t) is Ok iff can_assign_role(r, t); every other
\* result is Forbidden (Authorization).
C17_AuthzGate ==
  /\ Returned("require") =>
       calc.out = OkIff(has_permission(calc.args[1], calc.args[2]))
  /\ Returned("require_any") =>
       calc.out = OkIff(\E i \in 1..Len(calc.args[2]) :
                          has_permission(calc.args[1], calc.args[2][i]))
  /\ Returned("require_all") =>
       calc.out = OkIff(\A i \in 1..Len(calc.args[2]) :
                          has_permission(calc.args[1], calc.args[2][i]))
  /\ Returned("can_assign") =>
       calc.out = OkIff(can_assign_role(calc.args[1], calc.args[2]))

\* the Owner's require_any of the empty list was refused
C17_Witness ==
  Returned("require_any") /\ calc.args = <<"Owner", <<>>>>
    /\ calc.out = <<"Authorization">>

\* C18: converting a stored role string that is not a recognised role name is
\* reported as an error; it never yields a Role, in particular not Undefined.
C18_UnknownRoleRejected ==
  (Returned("role_from_string")
     /\ calc.args[1] \notin {role_to_string(r) : r \in Roles})
    => calc.out[1] \notin Roles

\* C19: the Debug output of RawPassword, HashedPassword and Email is the same
\* for any two values of the type, and is the constant "<Type>(***)".
C19_DebugRedacted ==
  Returned("fmt") =>
    /\ calc.out[1] = calc.out[2]
    /\ calc.out[1] = CASE calc.args[1] = "RawPassword" -> "RawPassword(***)"
                       [] calc.args[1] = "HashedPassword" -> "HashedPassword(***)"
                       [] calc.args[1] = "Email" -> "Email(***)"

\* two different passwords were formatted
C19_Witness ==
  Returned("fmt") /\ calc.args = <<"RawPassword", GoodPw, "wrong-pw">>
    /\ calc.out = <<"RawPassword(***)", "RawPassword(***)">>

Clamp(x) == IF x > i64_MAX THEN i64_MAX ELSE IF x < i64_MIN THEN i64_MIN ELSE x
Exact(x) == IF x \in Amounts THEN <<"Some", x>> ELSE <<"None">>

\* C20: a + b, a - b and -a are the mathematical result clamped to the range
\* of the integer (never wrapped), and checked_add, checked_sub, checked_neg
\* return Some(exact result) when the mathematical result is in range and None
\* exactly when the operator saturates.
C20_MoneySaturates ==
  /\ Returned("add") => calc.out[1] = Clamp(calc.args[1] + calc.args[2])
  /\ Returned("sub") => calc.out[1] = Clamp(calc.args[1] - calc.args[2])
  /\ Returned("neg") => calc.out[1] = Clamp(0 - calc.args[1])
  /\ Returned("checked_add") => calc.out[1] = Exact(calc.args[1] + calc.args[2])
  /\ Returned("checked_sub") => calc.out[1] = Exact(calc.args[1] - calc.args[2])
  /\ Returned("checked_neg") => calc.out[1] = Exact(0 - calc.args[1])

\* MAX + 1 stayed at MAX
C20_Witness ==
  Returned("add") /\ calc.args = <<i64_MAX, 1>> /\ calc.out = <<i64_MAX>>

\* the validation of p found (or would have found) its session past its expiry
ExpiredAt(p) ==
  \E c \in CookieOf(p) : loc[p].at > c.issued + c.duration

\* C21: a validation that meets a session whose expiry has passed deletes the
\* row before it returns Unauthenticated: once such a validation has returned,
\* the session store holds no row with that token.
C21_ExpiredSessionDeleted ==
  \A p \in Procs :
    (Validated(p) /\ ExpiredAt(p)) =>
      /\ res[p] \in Unauthenticated
      /\ \A s \in sessions : s.token # req[p].token

\* the layered build alone
C21_Layered == variant = "layered" => C21_ExpiredSessionDeleted

\* both slots validate the same token
SameToken == req["p1"].token = req["p2"].token

\* C22: two validations of one expired token, in any interleaving, both return
\* Unauthenticated and neither a storage error: the validation that deletes a
\* session another validation has already deleted returns as the first did.
C22_ExpiredValidationRace ==
  /\ [](\A p \in Procs : (Validated(p) /\ ExpiredAt(p)) =>
          /\ res[p] \in Unauthenticated
          /\ \A q \in Procs : (Validated(q) /\ ExpiredAt(q) /\ SameToken) =>
                                into_response(res[q]) = into_response(res[p]))
  /\ [][\A p \in Procs :
          (pc[p] = "authn_delete" /\ pc'[p] = "done") =>
            res'[p] = "Authentication"]_vars

\* one validation has deleted the expired session and returned while the other,
\* which read the row before, is about to delete it again
C22_Witness ==
  /\ SameToken
  /\ Validated("p1") /\ ExpiredAt("p1") /\ res["p1"] = "Authentication"
  /\ pc["p2"] = "authn_delete"
  /\ \A s \in sessions : s.token # req["p2"].token

\* C23: validating an unexpired session leaves the session store unchanged; no
\* step modifies an existing session (a row is kept as it is or deleted); a
\* login adds exactly one row, with a token no session carries or carried,
\* and keeps every existing session.
C23_SessionsImmutable ==
  [][ /\ \A s \in sessions :
           s \in sessions' \/ \A n \in sessions' : n.id # s.id /\ n.token # s.token
      /\ \A p \in Procs :
           ( /\ pc[p] \in {"authn_find", "authn_user", "ss_find", "ss_user"}
             /\ pc'[p] # pc[p]
             /\ \A s \in sessions : s.token = req[p].token => ~is_expired(s, now) )
             => sessions' = sessions
      /\ \A p \in Procs :
           (pc[p] \in {"login_create", "sl_create"} /\ pc'[p] = "done") =>
             /\ sessions \subseteq sessions'
             /\ Cardinality(sessions' \ sessions) = 1
             /\ \A n \in sessions' \ sessions :
                  /\ n.token \notin SessionTokens
                  /\ n.token \notin {s.token : s \in sessions}
                  /\ n.expires_at = now + (IF variant = "layered"
                                           THEN SessionExpirationDays
                                           ELSE SliceSessionDays) ]_vars

\* the owner holds two sessions and a validation of one of them succeeded
C23_Witness ==
  /\ Cardinality({s \in sessions : s.user_id = SeedId}) = 2
  /\ \E p \in Procs :
       /\ Done(p, "me") /\ res[p] = "Ok"
       /\ \E s \in sessions : s.token = req[p].token

\* the address the invitation of p's token was issued for
InvitedAddress(p) == {i.email : i \in {j \in hist.invited : j.token = req[p].token}}

\* C24: of two accepts carrying the same unexpired invitation token, in any
\* interleaving, at most one reports success and at most one writes: at most
\* one principal exists for the invitation's address, with one anchor and one
\* wallet, all written by the accept that succeeded.
C24_AcceptRace ==
  ( /\ Done("p1", "accept") /\ Done("p2", "accept") /\ SameToken )
    => /\ ~(res["p1"] = "Ok" /\ res["p2"] = "Ok")
       /\ ~(Wrote(req["p1"].id) /\ Wrote(req["p2"].id))
       /\ \A e \in InvitedAddress("p1") :
            LET us == {u \in users : u.email = e} IN
              /\ Cardinality(us) <= 1
              /\ \A u \in us :
                   /\ Cardinality({w \in wallets : w.owner = u.actor_id}) = 1
                   /\ u.actor_id \in actors
                   /\ \A p \in Procs : res[p] = "Ok" => u.id = req[p].id

\* both accepts read the invitation; one committed, the other lost at the insert
C24_Witness ==
  /\ Done("p1", "accept") /\ Done("p2", "accept") /\ SameToken
  /\ hist.faults = {}
  /\ {res["p1"], res["p2"]} = {"Ok", "Database"}

\* C25: an accept whose registration fails (the address is taken, or a write of
\* the transaction fails) returns that error, has written no actor, user or
\* wallet, and has not touched the invitation: a step of an accept changes the
\* invites table only after the user of that accept is committed, and the
\* invitation of a failed accept is still stored as it was issued, as long as
\* it has not expired and no other accept has consumed it.
C25_FailedAcceptKeepsInvite ==
  /\ [](\A p \in Procs :
          (Done(p, "accept") /\ res[p] \in AlreadyExists \cup {"Database"}) =>
            /\ ~Wrote(req[p].id)
            /\ req[p].token \notin hist.accepted =>
                 \A i \in hist.invited :
                   (i.token = req[p].token /\ ~is_expired(i, now)) => i \in invites)
  /\ [][\A p \in Procs :
          (req[p].op = "accept" /\ pc'[p] # pc[p] /\ invites' # invites) =>
            /\ pc[p] = "acc_delete" /\ res'[p] = "Ok"
            /\ \E u \in users : u.id = req[p].id]_vars

\* an accept of an invitation for an address that belongs to a principal was
\* refused and the invitation is still stored
C25_Witness ==
  \E p \in Procs :
    /\ Done(p, "accept") /\ res[p] \in AlreadyExists
    /\ \E i \in invites : i.token = req[p].token /\ i \in hist.invited

\* the invite call that stored i has returned and its notification was not
\* delivered
Undelivered(i) ==
  /\ \A m \in mails : m.token # i.token
  /\ \A p \in Procs : req[p].id = i.id => pc[p] = "done"

\* C26: while an invitation whose notification failed is stored and has not
\* expired, every invite to its address fails AlreadyInvited at its lookup:
\* the call ends there, writes nothing and hands nothing to the notification
\* gateway.
C26_UndeliveredBlocksInvite ==
  [][\A q \in Procs :
       ( /\ pc[q] \in {"inv_find", "si_find"} /\ pc'[q] # pc[q]
         /\ \E i \in invites : /\ i.email = req[q].email
                                /\ ~is_expired(i, now)
                                /\ Undelivered(i) )
         => /\ pc'[q] = "done" /\ res'[q] \in AlreadyInvited
            /\ mails' = mails /\ invites' = invites]_vars

\* an invite was refused because of a stored invitation that was never
\* delivered
C26_Witness ==
  \E q \in Procs :
    /\ Done(q, "invite") /\ res[q] \in AlreadyInvited
    /\ \E i \in loc[q].inv :
         /\ i \in invites /\ i.id # req[q].id /\ i.email = req[q].email
         /\ Undelivered(i)

\* C27: can_assign_role(g, t) implies that every permission of t is a
\* permission of g.
C27_AssignDominates ==
  (Returned("can_assign_role") /\ calc.out = <<TRUE>>) =>
    \A q \in Permissions :
      has_permission(calc.args[2], q) => has_permission(calc.args[1], q)

\* the Owner may assign Admin, whose permissions are a proper part of its own
C27_Witness ==
  Returned("can_assign_role") /\ calc.args = <<"Owner", "Admin">>
    /\ calc.out = <<TRUE>>
    /\ \E q \in Permissions : has_permission("Owner", q) /\ ~has_permission("Admin", q)

\* C28: the role-assignment relation is transitive: can_assign_role(a, b) and
\* can_assign_role(b, c) imply can_assign_role(a, c).
C28_AssignTransitive ==
  (Returned("can_assign_chain") /\ calc.out[1] /\ calc.out[2]) => calc.out[3]

\* Owner assigns Admin, Admin assigns Admin, Owner assigns Admin
C28_Witness ==
  Returned("can_assign_chain") /\ calc.args = <<"Owner", "Admin", "Admin">>
    /\ calc.out = <<TRUE, TRUE, TRUE>>

\* the sum of the amounts of a set of transactions
RECURSIVE SumAmounts(_)
SumAmounts(rows) ==
  IF rows = {} THEN 0
  ELSE LET r == CHOOSE x \in rows : TRUE IN r.amount_cents + SumAmounts(rows \ {r})

\* what wallet w received minus what it sent
NetFlow(w) ==
  SumAmounts({r \in transactions : r.destination = w})
    - SumAmounts({r \in transactions : r.source = w})

\* the balances of a set of wallets, added up
RECURSIVE TotalBalance(_)
TotalBalance(ws) ==
  IF ws = {} THEN 0
  ELSE LET w == CHOOSE x \in ws : TRUE IN
       calculate_wallet_balance(w) + TotalBalance(ws \ {w})

\* C29: after any sequence of saved transactions the balance computed for a
\* wallet is what it received minus what it sent (a transaction from the
\* wallet to itself contributes 0), a wallet without transactions has balance
\* 0, and the balances of all wallets sum to 0.
C29_BalanceIsNetFlow ==
  Returned("calculate_wallet_balance") =>
    /\ calc.out[1] = NetFlow(calc.args[1])
    /\ transactions = {} => calc.out[1] = 0
    /\ TotalBalance(LedgerWallets) = 0

\* the same for ledgers in which no transaction has one wallet at both ends
C29_DistinctEnds ==
  (\A r \in transactions : r.source # r.destination) => C29_BalanceIsNetFlow

Abs(x) == IF x < 0 THEN 0 - x ELSE x

\* the minor units a rendered decimal denotes
Denotes(s) ==
  (IF s[1] = "-" THEN 0 - 1 ELSE 1) * (s[2] * 100 + s[4] * 10 + s[5])

\* C30: for every Money value m, the least one included, cents() is |m| mod
\* 100, and Display renders an optional minus sign, |m| div 100, a dot and the
\* cents as two digits, so that the rendered decimal denotes exactly m.
C30_DisplayExact ==
  /\ Returned("cents") => calc.out[1] = Abs(calc.args[1]) % 100
  /\ Returned("to_string") =>
       /\ calc.out[1] =
            <<IF calc.args[1] < 0 THEN "-" ELSE "", Abs(calc.args[1]) \div 100, ".">>
              \o two_digits(Abs(calc.args[1]) % 100)
       /\ Denotes(calc.out[1]) = calc.args[1]

\* the same for every value but the least
C30_AboveMin ==
  ~(calc.op \in {"cents", "to_string"} /\ calc.args[1] = i64_MIN) => C30_DisplayExact
====
